---- MODULE Spec2Model ----
(***************************************************************************)
(* BackTester.run of alpaca_trading_bot/backtesting.py as a state machine. *)
(*                                                                         *)
(* Money is counted in whole units: closes and starting_money are          *)
(* integers and starting_money is a multiple of every len(symbols) drawn,  *)
(* so Python's "/" and "//" on floats agree with \div here.                *)
(*                                                                         *)
(* A price table is a function from row keys to closes; its DOMAIN is the  *)
(* table's index.  Keys 1..end_date are the business days of date_range,   *)
(* each at the 05:00 stamp the code looks up; key Stray is a row the       *)
(* provider returned under a stamp that equals none of those lookups.      *)
(***************************************************************************)
EXTENDS Integers, Sequences, FiniteSets, TLC

VARIABLES
    starting_money,     \* BackTester.starting_money
    end_date,           \* len(date_range): the calendar is day 1..end_date
    symbols,            \* BackTester.symbols, a list
    strategy,           \* BackTester.strategy
    data,               \* rows of get_data(symbols, ...), per symbol
    spy_data,           \* rows of get_data(["SPY"], ...)
    portfolio,          \* BackTester.portfolio
    spy_portfolio,      \* BackTester.spy_portfolio
    results,            \* BackTester.results
    pc,                 \* position in run()
    i,                  \* index of the SPY scan
    initial_spy_close,  \* the close the SPY scan found, or None
    day,                \* date of the simulation loop
    k,                  \* position of the loop in symbols
    error,              \* the exception run() ended with, or NoError
    report,             \* what _report logged, or <<>>
    predict_calls,      \* number of strategy.predict calls made
    last_call,          \* the latest strategy.predict call
    trace,              \* the (date, position) of every appended valuation
    dry_run,            \* Broker.dry_run
    trade_calls,        \* number of Broker.trade calls made
    submit_calls,       \* the orders handed to client.submit_order
    trade_result        \* what the latest Broker.trade call returned

vars == <<starting_money, end_date, symbols, strategy, data, spy_data, portfolio,
          spy_portfolio, results, pc, i, initial_spy_close, day, k, error,
          report, predict_calls, last_call, trace,
          dry_run, trade_calls, submit_calls, trade_result>>

broker == <<dry_run, trade_calls, submit_calls, trade_result>>

inputs == <<starting_money, end_date, symbols, strategy, data, spy_data>>

(***************************************************************************)
(* Bounds and input domains                                                *)
(***************************************************************************)
NumDays == 2

MaxTrades == 2

ScenarioDays == 3

Stray == 0

None == -1

NoError == "none"

SymbolLists == {<<"AAPL">>, <<"AAPL", "MSFT">>, <<"AAPL", "AAPL">>}

StartingMoneys == {10000}

Closes(s) == IF s = "MSFT" THEN {60} ELSE {100, 110}

ScenarioCloses == {90, 100, 110}

Decisions == {-1, 0, 1, 2}

Tables(keys, closes) == UNION {[K -> closes] : K \in SUBSET keys}

WithStray(table, close) ==
    [x \in DOMAIN table \cup {Stray} |-> IF x = Stray THEN close ELSE table[x]]

\* Tables of rows on the calendar's days, with or without one stray row.  No
\* lookup of run() reads a stray row's close, so one value stands for all.
RowTables(days, closes) ==
    LET on == Tables(days, closes)
        any == CHOOSE c \in closes : \A x \in closes : c <= x
    IN  on \cup {WithStray(t, any) : t \in on}

Range(seq) == {seq[j] : j \in 1..Len(seq)}

RECURSIVE SumOver(_, _)
SumOver(f, n) == IF n = 0 THEN 0 ELSE f[n] + SumOver(f, n - 1)

(***************************************************************************)
(* Strategies                                                              *)
(***************************************************************************)
RECURSIVE SortedKeys(_)
SortedKeys(K) ==
    IF K = {} THEN <<>>
    ELSE LET m == CHOOSE x \in K : \A y \in K : x <= y
         IN  <<m>> \o SortedKeys(K \ {m})

SortedCloses(table) ==
    LET ks == SortedKeys(DOMAIN table)
    IN  [j \in 1..Len(ks) |-> table[ks[j]]]

RECURSIVE TailSum(_, _)
TailSum(xs, n) ==
    IF n = 0 THEN 0 ELSE xs[Len(xs)] + TailSum(SubSeq(xs, 1, Len(xs) - 1), n - 1)

Periods(xs, window) == IF window < Len(xs) THEN window ELSE Len(xs)

\* SimpleMovingAverage.predict: the last rolling means with min_periods=1,
\* compared as fractions.
SimpleMovingAverage_predict(table, short_window, long_window) ==
    LET xs == SortedCloses(table)
        ns == Periods(xs, short_window)
        nl == Periods(xs, long_window)
    IN  IF TailSum(xs, ns) * nl > TailSum(xs, nl) * ns THEN 1 ELSE -1

\* The values strategy.predict(table) can return.
Predict(table) ==
    CASE strategy.kind = "sma" ->
            {SimpleMovingAverage_predict(table, strategy.short_window,
                                         strategy.long_window)}
      [] strategy.kind = "hold" -> {0}
      [] OTHER -> Decisions

(***************************************************************************)
(* Initial states                                                          *)
(***************************************************************************)
Constructed ==
    /\ portfolio = <<>>
    /\ spy_portfolio = [cash |-> starting_money, shares |-> 0]
    /\ results = [strategy_value |-> <<>>, spy_value |-> <<>>]
    /\ pc = "run"
    /\ i = 0
    /\ initial_spy_close = None
    /\ day = 1
    /\ k = 1
    /\ error = NoError
    /\ report = <<>>
    /\ predict_calls = 0
    /\ last_call = [day |-> 0, symbol |-> "", seen |-> {}, decision |-> 0]
    /\ trace = <<>>

\* A Broker built with the defaults of __init__, on which trade is never called.
NoBroker ==
    /\ dry_run = FALSE
    /\ trade_calls = 0
    /\ submit_calls = <<>>
    /\ trade_result = "none"

\* Runs of a HOLD-only strategy, of a strategy free to return any decision,
\* and of the base Model, on one or two symbols over NumDays days.
Init ==
    /\ starting_money \in StartingMoneys
    /\ end_date = NumDays
    /\ symbols \in SymbolLists
    /\ strategy \in {[kind |-> "hold"], [kind |-> "any"], [kind |-> "Model"]}
    /\ data \in [Range(symbols) ->
                    UNION {RowTables(1..end_date, Closes(s)) : s \in Range(symbols)}]
    /\ \A s \in Range(symbols) : data[s] \in RowTables(1..end_date, Closes(s))
    /\ spy_data \in RowTables(1..end_date, Closes("SPY"))
    /\ Constructed
    /\ NoBroker

\* Runs of the strategies models.py defines, on one symbol over three days.
InitSMA ==
    /\ starting_money \in StartingMoneys
    /\ end_date = ScenarioDays
    /\ symbols = <<"AAPL">>
    /\ strategy \in {[kind |-> "sma", short_window |-> s, long_window |-> l] :
                        s \in {1, 2}, l \in {2, 3}} \cup {[kind |-> "Model"]}
    /\ data \in [Range(symbols) -> Tables(1..end_date, ScenarioCloses)]
    /\ spy_data \in Tables(1..end_date, Closes("SPY"))
    /\ Constructed
    /\ NoBroker

\* A backtest of one symbol next to a Broker, dry or live, whose trade is
\* called up to MaxTrades times.
InitBroker ==
    /\ starting_money \in StartingMoneys
    /\ end_date = NumDays
    /\ symbols = <<"AAPL">>
    /\ strategy \in {[kind |-> "hold"], [kind |-> "Model"]}
    /\ data \in [Range(symbols) -> Tables(1..end_date, {100})]
    /\ spy_data \in Tables(1..end_date, {100})
    /\ Constructed
    /\ dry_run \in BOOLEAN
    /\ trade_calls = 0
    /\ submit_calls = <<>>
    /\ trade_result = "none"

(***************************************************************************)
(* run(): allocation and the bulk fetch                                    *)
(***************************************************************************)
cash_per_stock == starting_money \div Len(symbols)

Allocation == [s \in Range(symbols) |-> [shares |-> 0, cash |-> cash_per_stock]]

DataEmpty == \A s \in DOMAIN data : DOMAIN data[s] = {}

Fail(e) == pc' = "failed" /\ error' = e

\* FetchData without the check of data.empty.
FetchDataUnchecked ==
    /\ pc = "run"
    /\ portfolio' = Allocation
    /\ pc' = "spy_scan"
    /\ UNCHANGED <<inputs, broker, spy_portfolio, results, i, initial_spy_close, day, k,
                   error, report, predict_calls, last_call, trace>>

FetchData ==
    /\ pc = "run"
    /\ portfolio' = Allocation
    /\ IF DataEmpty
       THEN Fail("ValueError: No data found")
       ELSE pc' = "spy_scan" /\ error' = error
    /\ UNCHANGED <<inputs, broker, spy_portfolio, results, i, initial_spy_close, day, k,
                   report, predict_calls, last_call, trace>>

(***************************************************************************)
(* run(): the benchmark scan and purchase                                  *)
(***************************************************************************)
SpyRows == Cardinality(DOMAIN spy_data)

ScanCondition == initial_spy_close = None /\ i < SpyRows

\* date_range[i] is day i + 1 (an index past the calendar raises inside the try).
ScanHit == (i + 1) \in 1..end_date /\ (i + 1) \in DOMAIN spy_data

ScanSpy ==
    /\ pc = "spy_scan"
    /\ ScanCondition
    /\ IF ScanHit
       THEN /\ initial_spy_close' = spy_data[i + 1]
            /\ UNCHANGED <<i, pc, error>>
       ELSE /\ i' = i + 1
            /\ initial_spy_close' = initial_spy_close
            /\ IF i' = SpyRows
               THEN Fail("ValueError: No SPY data found")
               ELSE UNCHANGED <<pc, error>>
    /\ UNCHANGED <<inputs, broker, portfolio, spy_portfolio, results, day, k, report,
                   predict_calls, last_call, trace>>

SpyPurchase(spy, close) ==
    LET shares == spy.cash \div close
    IN  [shares |-> shares, cash |-> spy.cash - shares * close]

BuySpy ==
    /\ pc = "spy_scan"
    /\ ~ScanCondition
    /\ IF initial_spy_close = None
       THEN Fail("TypeError") /\ UNCHANGED spy_portfolio
       ELSE /\ spy_portfolio' = SpyPurchase(spy_portfolio, initial_spy_close)
            /\ pc' = "loop"
            /\ error' = error
    /\ UNCHANGED <<inputs, broker, portfolio, results, i, initial_spy_close, day, k,
                   report, predict_calls, last_call, trace>>

(***************************************************************************)
(* run(): the simulation loop                                              *)
(***************************************************************************)
InIndex(table, d) == d \in 1..end_date /\ d \in DOMAIN table

\* What run() hands to strategy.predict for symbol s on date d.
PriceHistory(s, d) == data[s]

\* ApplyDecision buying one share more than the cash pays for.
ApplyDecisionOverspends(pf, s, decision, price) ==
    IF decision = 1 /\ pf[s].cash > 0
    THEN LET shares_to_buy == pf[s].cash \div price + 1
         IN  [pf EXCEPT ![s] = [shares |-> @.shares + shares_to_buy,
                                cash |-> @.cash - shares_to_buy * price]]
    ELSE IF decision = -1 /\ pf[s].shares > 0
    THEN [pf EXCEPT ![s] = [shares |-> 0, cash |-> @.cash + @.shares * price]]
    ELSE pf

\* ApplyDecision taking every decision but SELL for a BUY.
ApplyDecisionBuysOnHold(pf, s, decision, price) ==
    IF decision # -1 /\ pf[s].cash > 0
    THEN LET shares_to_buy == pf[s].cash \div price
         IN  [pf EXCEPT ![s] = [shares |-> @.shares + shares_to_buy,
                                cash |-> @.cash - shares_to_buy * price]]
    ELSE IF decision = -1 /\ pf[s].shares > 0
    THEN [pf EXCEPT ![s] = [shares |-> 0, cash |-> @.cash + @.shares * price]]
    ELSE pf

\* ApplyDecision spending the whole cash on a BUY, remainder included.
ApplyDecisionSpendsAll(pf, s, decision, price) ==
    IF decision = 1 /\ pf[s].cash > 0
    THEN LET shares_to_buy == pf[s].cash \div price
         IN  [pf EXCEPT ![s] = [shares |-> @.shares + shares_to_buy, cash |-> 0]]
    ELSE IF decision = -1 /\ pf[s].shares > 0
    THEN [pf EXCEPT ![s] = [shares |-> 0, cash |-> @.cash + @.shares * price]]
    ELSE pf

\* ApplyDecision selling one share on a SELL.
ApplyDecisionSellsOne(pf, s, decision, price) ==
    IF decision = 1 /\ pf[s].cash > 0
    THEN LET shares_to_buy == pf[s].cash \div price
         IN  [pf EXCEPT ![s] = [shares |-> @.shares + shares_to_buy,
                                cash |-> @.cash - shares_to_buy * price]]
    ELSE IF decision = -1 /\ pf[s].shares > 0
    THEN [pf EXCEPT ![s] = [shares |-> @.shares - 1, cash |-> @.cash + price]]
    ELSE pf

\* The buy and sell branches applied to the ledger of symbol s.
ApplyDecision(pf, s, decision, price) ==
    IF decision = 1 /\ pf[s].cash > 0
    THEN LET shares_to_buy == pf[s].cash \div price
         IN  [pf EXCEPT ![s] = [shares |-> @.shares + shares_to_buy,
                                cash |-> @.cash - shares_to_buy * price]]
    ELSE IF decision = -1 /\ pf[s].shares > 0
    THEN [pf EXCEPT ![s] = [shares |-> 0, cash |-> @.cash + @.shares * price]]
    ELSE pf

\* StrategyValue pricing a symbol without a row on the date at its latest
\* earlier close.
StrategyValueCarriesForward(pf, d) ==
    LET n == Len(symbols)
        close(s) == LET days == {x \in 1..d : InIndex(data[s], x)}
                    IN  IF days = {} THEN 0
                        ELSE data[s][CHOOSE x \in days : \A y \in days : y <= x]
        held == [j \in 1..n |-> pf[symbols[j]].shares * close(symbols[j])]
        cash == [j \in 1..n |-> pf[symbols[j]].cash]
    IN  SumOver(held, n) + SumOver(cash, n)

StrategyValue(pf, d) ==
    LET n == Len(symbols)
        held == [j \in 1..n |->
                    IF InIndex(data[symbols[j]], d)
                    THEN pf[symbols[j]].shares * data[symbols[j]][d]
                    ELSE 0]
        cash == [j \in 1..n |-> pf[symbols[j]].cash]
    IN  SumOver(held, n) + SumOver(cash, n)

SpyValue(spy, d) == spy.shares * spy_data[d] + spy.cash

\* AppendBoth without the second append.
AppendStrategyOnly(res, strategy_value, spy_value) ==
    [strategy_value |-> Append(res.strategy_value, strategy_value),
     spy_value |-> res.spy_value]

\* results after the two appends that end a step.
AppendBoth(res, strategy_value, spy_value) ==
    [strategy_value |-> Append(res.strategy_value, strategy_value),
     spy_value |-> Append(res.spy_value, spy_value)]

\* The for loops' next (date, symbol); past the last one run() calls _report.
Advance ==
    IF k < Len(symbols)
    THEN k' = k + 1 /\ day' = day /\ pc' = "loop"
    ELSE /\ k' = 1
         /\ day' = day + 1
         /\ pc' = IF day + 1 > end_date THEN "report" ELSE "loop"

AtBar == pc = "loop" /\ InIndex(data[symbols[k]], day)

\* SkipStep recording a valuation for the pair it skips.
SkipStepRecords ==
    /\ pc = "loop"
    /\ ~InIndex(data[symbols[k]], day)
    /\ InIndex(spy_data, day)
    /\ results' = AppendBoth(results, StrategyValue(portfolio, day),
                             SpyValue(spy_portfolio, day))
    /\ trace' = Append(trace, <<day, k>>)
    /\ Advance
    /\ UNCHANGED <<inputs, broker, portfolio, spy_portfolio, i, initial_spy_close,
                   error, report, predict_calls, last_call>>

\* continue: the (symbol, date) pair has no row.
SkipStep ==
    /\ pc = "loop"
    /\ ~InIndex(data[symbols[k]], day)
    /\ Advance
    /\ UNCHANGED <<inputs, broker, portfolio, spy_portfolio, results, i, initial_spy_close,
                   error, report, predict_calls, last_call, trace>>

\* Model.predict takes no argument besides self: the call raises.
PredictRaises ==
    /\ AtBar
    /\ strategy.kind = "Model"
    /\ Fail("TypeError")
    /\ predict_calls' = predict_calls + 1
    /\ UNCHANGED <<inputs, broker, portfolio, spy_portfolio, results, i, initial_spy_close,
                   day, k, report, last_call, trace>>

\* The body of the loop from the prediction on, for the decision returned.
\* The lookup of SPY's close raises when SPY has no row on the date.
Valuation(decision) ==
    LET s == symbols[k]
        pf == ApplyDecision(portfolio, s, decision, data[s][day])
    IN  /\ portfolio' = pf
        /\ predict_calls' = predict_calls + 1
        /\ last_call' = [day |-> day, symbol |-> s,
                         seen |-> DOMAIN PriceHistory(s, day), decision |-> decision]
        /\ IF InIndex(spy_data, day)
           THEN /\ results' = AppendBoth(results, StrategyValue(pf, day),
                                         SpyValue(spy_portfolio, day))
                /\ trace' = Append(trace, <<day, k>>)
                /\ Advance
                /\ error' = error
           ELSE /\ Fail("KeyError")
                /\ UNCHANGED <<results, trace, day, k>>
        /\ UNCHANGED <<inputs, broker, i, initial_spy_close, report>>

\* TradeStep buying the benchmark again at the date's close.
TradeStepRebuysSpy ==
    /\ AtBar
    /\ strategy.kind # "Model"
    /\ \E decision \in Predict(PriceHistory(symbols[k], day)) : Valuation(decision)
    /\ spy_portfolio' =
          IF InIndex(spy_data, day)
          THEN SpyPurchase([cash |-> SpyValue(spy_portfolio, day), shares |-> 0],
                           spy_data[day])
          ELSE spy_portfolio

TradeStep ==
    /\ AtBar
    /\ strategy.kind # "Model"
    /\ \E decision \in Predict(PriceHistory(symbols[k], day)) : Valuation(decision)
    /\ UNCHANGED spy_portfolio

(***************************************************************************)
(* _report()                                                               *)
(***************************************************************************)
Last(seq) == seq[Len(seq)]

\* Report logging a summary of zeros when nothing was recorded.
ReportWithoutValues ==
    /\ pc = "report"
    /\ report' = [initial_value |-> starting_money,
                  final_value |-> IF Len(results.strategy_value) = 0 THEN 0
                                  ELSE Last(results.strategy_value),
                  spy_initial_value |-> starting_money,
                  spy_final_value |-> IF Len(results.spy_value) = 0 THEN 0
                                      ELSE Last(results.spy_value)]
    /\ pc' = "done"
    /\ UNCHANGED <<inputs, broker, portfolio, spy_portfolio, results, i, initial_spy_close,
                   day, k, error, predict_calls, last_call, trace>>

Report ==
    /\ pc = "report"
    /\ IF Len(results.strategy_value) = 0
       THEN Fail("IndexError") /\ UNCHANGED report
       ELSE /\ report' = [initial_value |-> starting_money,
                          final_value |-> Last(results.strategy_value),
                          spy_initial_value |-> starting_money,
                          spy_final_value |-> Last(results.spy_value)]
            /\ pc' = "done"
            /\ error' = error
    /\ UNCHANGED <<inputs, broker, portfolio, spy_portfolio, results, i, initial_spy_close,
                   day, k, predict_calls, last_call, trace>>

Next ==
    \/ FetchData
    \/ ScanSpy
    \/ BuySpy
    \/ SkipStep
    \/ PredictRaises
    \/ TradeStep
    \/ Report

(***************************************************************************)
(* Broker.trade                                                            *)
(***************************************************************************)
MarketOrderRequest(symbol, qty, side, time_in_force) ==
    [symbol |-> symbol, qty |-> qty, side |-> side, time_in_force |-> time_in_force]

\* TradeOutcome handing the order to the client before looking at dry_run.
TradeOutcomeSubmitsFirst(market_order, submitted) ==
    /\ submit_calls' = Append(submit_calls, market_order)
    /\ trade_result' = IF dry_run \/ submitted THEN "True" ELSE "False"

\* The try block of trade for one order; submitted says whether
\* client.submit_order returned rather than raised.
TradeOutcome(market_order, submitted) ==
    IF dry_run
    THEN /\ trade_result' = "True"
         /\ submit_calls' = submit_calls
    ELSE /\ submit_calls' = Append(submit_calls, market_order)
         /\ trade_result' = IF submitted THEN "True" ELSE "False"

Trade ==
    /\ trade_calls < MaxTrades
    /\ trade_calls' = trade_calls + 1
    /\ \E qty \in {1, 2}, side \in {"buy", "sell"}, submitted \in BOOLEAN :
          TradeOutcome(MarketOrderRequest("AAPL", qty, side, "day"), submitted)
    /\ UNCHANGED <<inputs, dry_run, portfolio, spy_portfolio, results, pc, i,
                   initial_spy_close, day, k, error, report, predict_calls,
                   last_call, trace>>

NextBroker ==
    \/ Next
    \/ Trade

Spec == Init /\ [][Next]_vars

SpecBroker == InitBroker /\ [][NextBroker]_vars

SpecSMA == InitSMA /\ [][Next]_vars

(***************************************************************************)
(* Properties                                                              *)
(***************************************************************************)
Recorded == Len(trace)

Ledger(shares, cash) == [shares |-> shares, cash |-> cash]

Scenario ==
    /\ starting_money = 10000
    /\ symbols = <<"AAPL">>
    /\ end_date = 3
    /\ data["AAPL"] = <<100, 110, 90>>
    /\ DOMAIN spy_data = 1..3
    /\ strategy = [kind |-> "sma", short_window |-> 1, long_window |-> 2]

\* C1: in the scenario of closes 100, 110, 90 with windows 1 and 2 the
\* decisions are SELL, BUY, SELL, the recorded strategy values are 10000,
\* 10000, 8200, and the ledger is (90, 100) after day 2 and (0, 8200) after
\* day 3.
C1_ScenarioValues ==
    Scenario =>
        /\ Recorded = 1 =>
              /\ last_call.decision = -1
              /\ results.strategy_value = <<10000>>
        /\ Recorded = 2 =>
              /\ last_call.decision = 1
              /\ portfolio["AAPL"] = Ledger(90, 100)
              /\ results.strategy_value = <<10000, 10000>>
        /\ Recorded = 3 =>
              /\ last_call.decision = -1
              /\ portfolio["AAPL"] = Ledger(0, 8200)
              /\ results.strategy_value = <<10000, 10000, 8200>>

\* C2: the history handed to strategy.predict on a date holds no row dated
\* after that date.
C2_NoLookahead == \A d \in last_call.seen : d <= last_call.day

\* The close of symbol s on its latest calendar day at or before d, or 0 when
\* it has none.
LastClose(s, d) ==
    LET seen == {x \in 1..d : InIndex(data[s], x)}
    IN  IF seen = {} THEN 0
        ELSE data[s][CHOOSE x \in seen : \A y \in seen : y <= x]

Conserved(pf, d) ==
    LET n == Len(symbols)
    IN  SumOver([j \in 1..n |-> pf[symbols[j]].cash
                                 + pf[symbols[j]].shares * LastClose(symbols[j], d)], n)

\* C3: every recorded strategy value is the cash of all symbols plus their
\* shares at each symbol's latest close at or before the step's date.
C3_CashConservation ==
    (Recorded > 0 /\ error = NoError) =>
        results.strategy_value[Recorded] = Conserved(portfolio, trace[Recorded][1])

\* C4: no ledger ever holds negative cash or a negative number of shares.
C4_LedgersNonNegative ==
    \A s \in DOMAIN portfolio : portfolio[s].cash >= 0 /\ portfolio[s].shares >= 0

\* A SELL has liquidated shares that an earlier BUY paid for.
C4_Witness ==
    /\ last_call.decision = -1
    /\ last_call.symbol \in DOMAIN portfolio
    /\ portfolio[last_call.symbol].shares = 0
    /\ portfolio[last_call.symbol].cash > cash_per_stock

\* C5: only the purchase that follows the scan changes the benchmark ledger;
\* no step of the simulation loop does.
C5_BenchmarkBoughtOnce ==
    [][(pc # "spy_scan") => spy_portfolio' = spy_portfolio]_vars

\* Two valuations are recorded, the strategy traded, and the benchmark holds
\* the shares of its one purchase, priced differently on the two dates.
C5_Witness ==
    /\ Recorded = 2
    /\ spy_portfolio.shares > 0
    /\ spy_portfolio = SpyPurchase([cash |-> starting_money, shares |-> 0],
                                   initial_spy_close)
    /\ results.spy_value[1] # results.spy_value[2]
    /\ \E s \in DOMAIN portfolio : portfolio[s].shares > 0

IsPrefix(a, b) == Len(a) <= Len(b) /\ SubSeq(b, 1, Len(a)) = a

\* C6: the two result sequences have the same length in every state, failed
\* runs included, and each step leaves the old sequences as prefixes of the
\* new ones.
C6_ResultsAligned ==
    /\ [](Len(results.strategy_value) = Len(results.spy_value))
    /\ [][/\ IsPrefix(results.strategy_value, results'.strategy_value)
          /\ IsPrefix(results.spy_value, results'.spy_value)]_vars

\* A run aborted inside the loop after a valuation was recorded.
C6_Witness == pc = "failed" /\ error = "KeyError" /\ Recorded >= 1

\* C7: under a strategy that always returns HOLD every ledger stays at its
\* allocation and the recorded strategy values are all equal.
C7_HoldKeepsAllocation ==
    (strategy.kind = "hold" /\ pc # "run") =>
        /\ portfolio = Allocation
        /\ \A a, b \in 1..Len(results.strategy_value) :
              results.strategy_value[a] = results.strategy_value[b]

\* A HOLD-only run recorded two different benchmark values.
C7_Witness ==
    /\ strategy.kind = "hold"
    /\ Len(results.spy_value) >= 2
    /\ results.spy_value[1] # results.spy_value[2]
    /\ results.strategy_value[1] = results.strategy_value[2]

RECURSIVE BarPairs(_, _)
\* The (date, position) pairs that have a row, from (d, j) on, in loop order.
BarPairs(d, j) ==
    IF d > end_date THEN <<>>
    ELSE LET rest == IF j < Len(symbols) THEN BarPairs(d, j + 1)
                     ELSE BarPairs(d + 1, 1)
         IN  IF InIndex(data[symbols[j]], d) THEN <<<<d, j>>>> \o rest ELSE rest

\* C8: a step at a pair without a row raises nothing, calls no strategy and
\* changes neither ledgers nor results; a run that reaches the report has
\* recorded exactly the pairs that have a row, in loop order.
C8_SkipsAndOneEntryPerBar ==
    /\ [](pc \in {"report", "done"} =>
             /\ trace = BarPairs(1, 1)
             /\ Len(results.strategy_value) = Len(trace)
             /\ Len(results.spy_value) = Len(trace)
             /\ predict_calls = Len(trace))
    /\ [][(pc = "loop" /\ ~InIndex(data[symbols[k]], day)) =>
             /\ portfolio' = portfolio
             /\ results' = results
             /\ predict_calls' = predict_calls
             /\ error' = NoError]_vars

\* A run completed although some pair of its calendar had no row.
C8_Witness ==
    /\ pc = "done"
    /\ Recorded >= 2
    /\ Recorded < end_date * Len(symbols)

\* C9: when the provider returns no rows, run() ends with the no-data error
\* before the scan: no prediction, no trade, no purchase, nothing recorded.
C9_NoDataAborts ==
    (DataEmpty /\ pc # "run") =>
        /\ pc = "failed"
        /\ error = "ValueError: No data found"
        /\ predict_calls = 0
        /\ portfolio = Allocation
        /\ spy_portfolio = [cash |-> starting_money, shares |-> 0]
        /\ results = [strategy_value |-> <<>>, spy_value |-> <<>>]

\* The run failed for lack of data although the benchmark has rows.
C9_Witness == DataEmpty /\ pc = "failed" /\ 1 \in DOMAIN spy_data

NoBenchmarkBar == \A d \in 1..end_date : ~InIndex(spy_data, d)

\* C10: once the scan and purchase are over, the run has failed with the
\* no-SPY error exactly when no business day has a benchmark row.
C10_BenchmarkErrorIff ==
    (~DataEmpty /\ pc \in {"loop", "report", "done", "failed"}) =>
        ((error = "ValueError: No SPY data found") <=> NoBenchmarkBar)

\* C11: _report on empty result sequences raises and logs no summary; on
\* non-empty ones the final values it logs are the sequences' last elements.
C11_ReportNeedsValues ==
    [][(pc = "report") =>
          IF Len(results.strategy_value) = 0
          THEN pc' = "failed" /\ error' = "IndexError" /\ report' = <<>>
          ELSE /\ pc' = "done"
               /\ error' = NoError
               /\ report'.final_value =
                     results.strategy_value[Len(results.strategy_value)]
               /\ report'.spy_final_value = results.spy_value[Len(results.spy_value)]
               /\ results' = results]_vars

\* The provider returned rows, none on a business day, and the report raised.
C11_Witness ==
    /\ error = "IndexError"
    /\ ~DataEmpty
    /\ Recorded = 0
    /\ report = <<>>

\* A step of run(): some part of its position or counters moves.
RunStep ==
    <<pc, i, initial_spy_close, day, k, predict_calls>>'
        # <<pc, i, initial_spy_close, day, k, predict_calls>>

\* C12: a call of trade on a dry-run Broker hands no order to
\* client.submit_order and returns True; no step of run() calls trade or
\* submits an order.
C12_DryRunNeverSubmits ==
    [][/\ (trade_calls' # trade_calls /\ dry_run) =>
             /\ submit_calls' = submit_calls
             /\ trade_result' = "True"
       /\ RunStep => (trade_calls' = trade_calls /\ submit_calls' = submit_calls)]_vars

\* A dry-run Broker has traded MaxTrades times beside a completed backtest.
C12_Witness ==
    /\ dry_run
    /\ trade_calls = MaxTrades
    /\ trade_result = "True"
    /\ submit_calls = <<>>
    /\ pc = "done"

\* The close of the earliest business day that has a benchmark row.
FirstBenchmarkClose ==
    LET days == {d \in 1..end_date : InIndex(spy_data, d)}
    IN  spy_data[CHOOSE d \in days : \A x \in days : d <= x]

\* C13: when some business day has a benchmark row, the scan ends with the
\* benchmark bought at the close of the earliest such day, wherever it lies:
\* floor(starting_money / close) shares and the remainder as cash.
C13_BuysAtFirstBenchmarkClose ==
    (~DataEmpty /\ ~NoBenchmarkBar /\ pc \in {"loop", "report", "done", "failed"}) =>
        /\ spy_portfolio.shares = starting_money \div FirstBenchmarkClose
        /\ spy_portfolio.cash =
              starting_money - spy_portfolio.shares * FirstBenchmarkClose
        /\ 0 <= spy_portfolio.cash
        /\ spy_portfolio.cash < FirstBenchmarkClose

\* A step of the loop in which the strategy returned a decision.
Decided == pc = "loop" /\ strategy.kind # "Model" /\ predict_calls' = predict_calls + 1

OthersUntouched(s) ==
    \A t \in DOMAIN portfolio : t # s => portfolio'[t] = portfolio[t]

\* C14: a BUY for symbol s at close p with cash c adds floor(c / p) shares and
\* takes floor(c / p) * p from the cash, leaving 0 <= cash < p; with c < p
\* nothing changes; no other ledger changes, and the step can only end in an
\* error over the benchmark's missing row.
C14_BuyEffect ==
    [][(Decided /\ last_call'.decision = 1) =>
          LET s == symbols[k]
              p == data[s][day]
              c == portfolio[s].cash
          IN  /\ portfolio'[s].shares = portfolio[s].shares + c \div p
              /\ portfolio'[s].cash = c - (c \div p) * p
              /\ 0 <= portfolio'[s].cash
              /\ portfolio'[s].cash < p
              /\ c < p => portfolio' = portfolio
              /\ OthersUntouched(s)
              /\ error' # NoError => (error' = "KeyError" /\ ~InIndex(spy_data, day))]_vars

\* A BUY left shares and a remainder below the close in one ledger while the
\* other ledger is at its allocation.
C14_Witness ==
    /\ last_call.decision = 1
    /\ Len(symbols) = 2
    /\ last_call.symbol = "MSFT"
    /\ portfolio["MSFT"].shares > 0
    /\ portfolio["MSFT"].cash > 0
    /\ portfolio["MSFT"].cash < data["MSFT"][last_call.day]
    /\ portfolio["AAPL"] = Ledger(0, cash_per_stock)

\* C15: a SELL for symbol s at close p with n shares leaves 0 shares and adds
\* n * p to the cash; with n = 0 nothing changes; no other ledger changes.
C15_SellEffect ==
    [][(Decided /\ last_call'.decision = -1) =>
          LET s == symbols[k]
              p == data[s][day]
              n == portfolio[s].shares
          IN  /\ portfolio'[s].shares = 0
              /\ portfolio'[s].cash = portfolio[s].cash + n * p
              /\ n = 0 => portfolio' = portfolio
              /\ OthersUntouched(s)]_vars

\* A SELL liquidated, below their cost, shares that a BUY had paid for.
C15_Witness ==
    /\ last_call.decision = -1
    /\ last_call.symbol \in DOMAIN portfolio
    /\ portfolio[last_call.symbol].shares = 0
    /\ portfolio[last_call.symbol].cash < cash_per_stock

\* C16: a step whose decision is none of 1, -1, 0 raises nothing, changes no
\* ledger and appends one valuation to each result sequence.
C16_UnknownDecisionIsHold ==
    [][(Decided /\ last_call'.decision \notin {-1, 0, 1}) =>
          /\ error' = NoError
          /\ portfolio' = portfolio
          /\ Len(results'.strategy_value) = Len(results.strategy_value) + 1
          /\ Len(results'.spy_value) = Len(results.spy_value) + 1]_vars

\* What symbols[j] adds to the strategy value on date d: its cash, and its
\* shares at the date's close when it has a row on d.
Contribution(j, d) ==
    LET s == symbols[j]
    IN  portfolio[s].cash
        + (IF InIndex(data[s], d) THEN portfolio[s].shares * data[s][d] ELSE 0)

\* C17: the values recorded by a step on date d are the cash of all symbols
\* plus shares times the close on d of the symbols that have a row on d, and
\* the benchmark's shares times its close on d plus its cash.
C17_RecordedValues ==
    (Recorded > 0 /\ error = NoError) =>
        LET d == trace[Recorded][1]
        IN  /\ results.strategy_value[Recorded] =
                  SumOver([j \in 1..Len(symbols) |-> Contribution(j, d)], Len(symbols))
            /\ results.spy_value[Recorded] =
                  spy_portfolio.shares * spy_data[d] + spy_portfolio.cash

\* A valuation was recorded on a date on which a symbol holding shares has no
\* row.
C17_Witness ==
    /\ Recorded > 0
    /\ error = NoError
    /\ \E j \in 1..Len(symbols) :
          /\ portfolio[symbols[j]].shares > 0
          /\ ~InIndex(data[symbols[j]], trace[Recorded][1])

RECURSIVE LedgerCash(_)
\* The cash of the ledgers of the symbols in S, added up.
LedgerCash(S) ==
    IF S = {} THEN 0
    ELSE LET s == CHOOSE x \in S : TRUE
         IN  portfolio[s].cash + LedgerCash(S \ {s})

\* C18: before any trade there is one ledger per entry of the symbols list,
\* each with 0 shares and starting_money / len(symbols) cash, the ledgers'
\* cash adds up to starting_money, and a first valuation recorded with the
\* ledgers still at their allocation equals starting_money.
C18_InitialAllocation ==
    (pc # "run" /\ portfolio = Allocation) =>
        /\ Cardinality(DOMAIN portfolio) = Len(symbols)
        /\ \A s \in DOMAIN portfolio :
              portfolio[s] = Ledger(0, starting_money \div Len(symbols))
        /\ LedgerCash(DOMAIN portfolio) = starting_money
        /\ Recorded = 1 => results.strategy_value[1] = starting_money

\* C19: with a strategy whose predict returns, no step of the simulation
\* loop ends the run in an error, whatever rows the tables lack.
C19_LoopRaisesNothing ==
    [][(pc = "loop" /\ strategy.kind # "Model") => pc' # "failed"]_vars

\* C20: a decided step leaves shares * close + cash of its symbol unchanged,
\* and valuations recorded on the same date are equal, for the strategy and
\* for the benchmark.
C20_TradesValueNeutral ==
    /\ [](\A a, b \in 1..Recorded :
             trace[a][1] = trace[b][1] =>
                 /\ results.strategy_value[a] = results.strategy_value[b]
                 /\ results.spy_value[a] = results.spy_value[b])
    /\ [][Decided =>
             LET s == symbols[k]
                 p == data[s][day]
             IN  portfolio'[s].shares * p + portfolio'[s].cash
                     = portfolio[s].shares * p + portfolio[s].cash]_vars

\* Two valuations were recorded on one date, the second after a BUY that
\* left a remainder.
C20_Witness ==
    /\ Recorded = 2
    /\ trace[1][1] = trace[2][1]
    /\ last_call.decision = 1
    /\ last_call.symbol = symbols[2]
    /\ portfolio[last_call.symbol].shares > 0
    /\ portfolio[last_call.symbol].cash > 0

====
